---- MODULE Spec2Model ----
(***************************************************************************)
(* The association pipeline of ccal/association.py:                        *)
(* make_association_panel (align, drop degenerate features, annotate,      *)
(* plot) around associate (score, sort, bootstrap, permutation test,       *)
(* p-values, FDRs, save).                                                  *)
(*                                                                         *)
(* A pandas Series is a sequence of [key, val] records, a DataFrame a      *)
(* sequence of [name, row] records (row: column key -> value) together     *)
(* with the sequence of its column keys.  Scores are integers, p-values    *)
(* and FDRs are exact fractions [num, den] in lowest terms.                *)
(***************************************************************************)
EXTENDS Integers, Sequences, FiniteSets, TLC

VARIABLES
    pc,                 \* position in make_association_panel / associate
    target_in,          \* the caller's target Series
    features_in,        \* the caller's features DataFrame (rows)
    columns_in,         \* the caller's features DataFrame (column keys)
    n_jobs,
    min_n_per_job,
    n_permutations,
    features_ascending,
    n_features,         \* [type, num, den]: None, an int or a float
    n_samplings,
    target_name,
    target_type,
    features_type,
    filepath_prefix,
    name,               \* the name attribute of the caller's target Series
    target,             \* local: aligned target
    features,           \* local: aligned, filtered feature rows
    columns,            \* local: column keys of features
    scores,             \* the score table
    args,               \* chunks handed to parallelize
    leftovers,          \* names of the rows no chunk holds
    pending,            \* chunk tasks dispatched and not yet finished
    results,            \* results of the chunk tasks, by position in args
    permutation_scores, \* the null-score matrix (rows [name, null])
    p_values_and_fdrs,  \* name -> [p_value, fdr_forward, fdr_reverse, fdr]
    indices_to_bootstrap, \* names of the features selected for the bootstrap
    sampled_scores,     \* rows [name, sampled]: one score per finished sampling
    annotations,        \* rows [name, ic, p_val, fdr] handed to the plot
    indices_to_plot,    \* names of the features handed to the plot
    files,              \* the files written so far
    log,                \* the print_log messages, in order
    error               \* the message of the error raised, or "none"

vars == <<pc, target_in, features_in, columns_in, n_jobs, min_n_per_job,
          n_permutations, features_ascending, n_features, n_samplings,
          target_name, target_type, features_type, filepath_prefix, name,
          target, features, columns, scores,
          args, leftovers, pending, results, permutation_scores,
          p_values_and_fdrs, indices_to_bootstrap, sampled_scores, annotations,
          indices_to_plot, files, log, error>>

inputs == <<target_in, features_in, columns_in, n_jobs, min_n_per_job,
            n_permutations, features_ascending, n_features, n_samplings,
            target_name, target_type, features_type, filepath_prefix>>

\* the locals of the bootstrap stage
bootstrap == <<indices_to_bootstrap, sampled_scores>>

\* the locals of the annotation and plot steps, and the files on disk
panel == <<annotations, indices_to_plot, files>>

----------------------------------------------------------------------------
(* Bounds of the model.                                                    *)

MaxFeatures == 3        \* rows of the caller's feature matrix
MaxJobs == 3            \* n_jobs
MaxMinPerJob == 2       \* min_n_per_job
MaxPermutations == 2    \* n_permutations
MaxNullScores == 6      \* rows of the feature matrix times n_permutations
MaxSamplings == 2       \* n_samplings

----------------------------------------------------------------------------
(* Sequences, sums, fractions.                                             *)

Range(s) == {s[i] : i \in DOMAIN s}

RECURSIVE Sum(_)
Sum(s) == IF s = <<>> THEN 0 ELSE Head(s) + Sum(Tail(s))

Dot(a, b) == Sum([i \in DOMAIN a |-> a[i] * b[i]])

RECURSIVE Concat(_)
Concat(ss) == IF ss = <<>> THEN <<>> ELSE Head(ss) \o Concat(Tail(ss))

Min2(a, b) == IF a <= b THEN a ELSE b

\* the orderings of 1..n
Orderings(n) == {o \in [1..n -> 1..n] : \A i, j \in 1..n : i # j => o[i] # o[j]}

\* the rearrangements of a sequence
Rearrangements(s) == {[i \in DOMAIN s |-> s[o[i]]] : o \in Orderings(Len(s))}

RECURSIVE GCD(_, _)
GCD(a, b) == IF b = 0 THEN a ELSE GCD(b, a % b)

Frac(n, d) == LET g == GCD(n, d) IN [num |-> n \div g, den |-> d \div g]

FracLeq(x, y) == x.num * y.den <= y.num * x.den

FracLess(x, y) == x.num * y.den < y.num * x.den

FracMin(x, y) == IF FracLeq(x, y) THEN x ELSE y

FracMax(x, y) == IF FracLeq(x, y) THEN y ELSE x

One == Frac(1, 1)

----------------------------------------------------------------------------
(* The inputs of a run.                                                    *)

\* values of the target and of the feature rows, by sample key 0..3
TargetProfile == <<0, 2, 1, 2>>

RowA == <<0, 2, 1, 2>>
RowB == <<2, 0, 1, 0>>
RowC == <<1, 1, 1, 0>>
RowD == <<1, 1, 1, 1>>
RowE == <<0, 1, 2, 1>>

FeatureFixtures == {<<RowA, RowB, RowE, RowA>>, <<RowD, RowA, RowC, RowB>>}

\* (target index, feature columns)
IndexPairs == {<<{0}, {0}>>, <<{0}, {1, 2, 3}>>, <<{0, 1, 2}, {1, 2, 3}>>,
               <<{0, 1}, {0, 1, 3}>>, <<{1, 3}, {1, 2, 3}>>, <<{1, 2, 3}, {0, 1, 2, 3}>>}

\* four shared samples: the least the bootstrap stage runs on
BootstrapIndexPairs == {<<{0, 1, 2, 3}, {0, 1, 2, 3}>>}

\* the inputs with three shared samples carry one feature less
MaxRows(ip) == IF Cardinality(ip[1] \cap ip[2]) = 3 THEN MaxFeatures - 1 ELSE MaxFeatures

\* the inputs with four shared samples get half the null scores
NullBudget(ip) ==
    IF Cardinality(ip[1] \cap ip[2]) >= 4 THEN MaxNullScores \div 2 ELSE MaxNullScores

RECURSIVE Ascending(_)
Ascending(S) ==
    IF S = {} THEN <<>>
    ELSE LET k == CHOOSE x \in S : \A y \in S : x <= y IN <<k>> \o Ascending(S \ {k})

MakeSeries(index) ==
    LET ks == Ascending(index) IN
    [i \in DOMAIN ks |-> [key |-> ks[i], val |-> TargetProfile[ks[i] + 1]]]

MakeFrame(fixture, n, cols) ==
    [i \in 1..n |-> [name |-> i,
                     row |-> [k \in cols |-> fixture[((i - 1) % Len(fixture)) + 1][k + 1]]]]

\* python's None, where a str is expected
None == "None"

\* n_features: None, an int (den = 1) or a float below 1
NoneType == [type |-> "NoneType", num |-> 0, den |-> 1]

AnInt(k) == [type |-> "int", num |-> k, den |-> 1]

AFloat(n, d) == [type |-> "float", num |-> n, den |-> d]

\* the default n_features=0.95
DefaultNFeatures == AFloat(19, 20)

NFeaturesValues == {NoneType, DefaultNFeatures, AnInt(1)}

\* (target_name, target_type, features_type, filepath_prefix); 'ordinal' is
\* a type the plot does not know
PanelArguments ==
    {<<None, "continuous", "continuous", None>>,
     <<"renamed", "categorical", "binary", "prefix">>,
     <<"renamed", "ordinal", "continuous", "prefix">>,
     <<None, "continuous", "ordinal", "prefix">>,
     <<None, "ordinal", "ordinal", None>>}

----------------------------------------------------------------------------
(* pandas views.                                                           *)

Index(series) == [i \in DOMAIN series |-> series[i].key]

Values(series) == [i \in DOMAIN series |-> series[i].val]

Names(frame) == [i \in DOMAIN frame |-> frame[i].name]

\* one row of a frame as a vector, in column order
RowVector(f, cols) == [i \in DOMAIN cols |-> f.row[cols[i]]]

\* frame.iloc[lo:hi, :] with python's 0-based, end-exclusive, clipped slice
Iloc(frame, lo, hi) == SubSeq(frame, lo + 1, Min2(hi, Len(frame)))

\* frame.ix[labels, :]
IxRows(frame, labels) ==
    Concat([j \in DOMAIN labels |-> SelectSeq(frame, LAMBDA f : f.name = labels[j])])

\* list.remove(x): drops the first occurrence (x is always in the list here:
\* the chunks are disjoint slices of the rows the list names)
RECURSIVE ListRemove(_, _)
ListRemove(l, x) ==
    IF l = <<>> THEN <<>>
    ELSE IF Head(l) = x THEN Tail(l) ELSE <<Head(l)>> \o ListRemove(Tail(l), x)

RECURSIVE ListRemoveAll(_, _)
ListRemoveAll(l, xs) ==
    IF xs = <<>> THEN l ELSE ListRemoveAll(ListRemove(l, Head(xs)), Tail(xs))

\* a test that never fails: the empty intersection passes too
anyOrEmpty(keys) == TRUE

\* python's any(): some element is truthy (a key 0 is falsy)
any(keys) == \E k \in keys : k # 0

\* series.sort_values(ascending=False): every order of the rows that is
\* non-increasing by value (the sort is not stable)
SortValuesDescending(series) ==
    {s \in Rearrangements(series) :
        \A i \in 1..(Len(s) - 1) : s[i].val >= s[i + 1].val}

\* a sort that takes the direction the wrong way round
SortByScoreReversed(table, ascending) ==
    {s \in Rearrangements(table) :
        \A i \in 1..(Len(s) - 1) :
            IF ascending THEN s[i].score >= s[i + 1].score
            ELSE s[i].score <= s[i + 1].score}

\* scores.sort_values('score', ascending=...)
SortByScore(table, ascending) ==
    {s \in Rearrangements(table) :
        \A i \in 1..(Len(s) - 1) :
            IF ascending THEN s[i].score <= s[i + 1].score
            ELSE s[i].score >= s[i + 1].score}

----------------------------------------------------------------------------
(* The scoring function (a pluggable capability) and the scorer.           *)

Covariance(a, b) == Len(a) * Dot(a, b) - Sum(a) * Sum(b)

\* function(a, b): an asymmetric association measure, the covariance of a and b
\* less the variance of a (both scaled by the squared length)
Func(a, b) == Covariance(a, b) - Covariance(a, a)

\* _score((t, f, func))
Score(t, f, cols) ==
    [i \in DOMAIN f |-> [name |-> f[i].name,
                         score |-> Func(Values(t), RowVector(f[i], cols))]]

----------------------------------------------------------------------------
PanelIs(a) ==
    /\ target_name = a[1]
    /\ target_type = a[2]
    /\ features_type = a[3]
    /\ filepath_prefix = a[4]

\* target and features are drawn from the fixtures over the index pairs ips
DataIs(ips) ==
    \E ip \in ips, fx \in FeatureFixtures : \E n \in 1..MaxRows(ip) :
        /\ target_in = MakeSeries(ip[1])
        /\ features_in = MakeFrame(fx, n, ip[2])
        /\ columns_in = Ascending(ip[2])
        /\ n * n_permutations <= NullBudget(ip)

Init ==
    /\ pc = "ALIGN"
    /\ n_permutations \in 0..MaxPermutations
    /\ features_ascending \in BOOLEAN
    \* a call explores the partition arguments, the bootstrap arguments (on
    \* four shared samples) or the arguments of the panel, the others at their
    \* plainest values
    /\ \/ /\ DataIs(IndexPairs)
          /\ n_jobs \in 1..MaxJobs
          /\ min_n_per_job \in 1..MaxMinPerJob
          /\ n_features = DefaultNFeatures
          /\ n_samplings = 1
          /\ PanelIs(<<None, "continuous", "continuous", None>>)
       \/ /\ DataIs(IndexPairs \cup BootstrapIndexPairs)
          /\ n_jobs = 1
          /\ min_n_per_job = 1
          /\ n_features \in NFeaturesValues
          /\ n_samplings \in 1..MaxSamplings
          /\ PanelIs(<<None, "continuous", "continuous", None>>)
       \/ /\ DataIs(IndexPairs)
          /\ n_jobs = 1
          /\ min_n_per_job = 1
          /\ n_features = DefaultNFeatures
          /\ n_samplings = 1
          /\ \E a \in PanelArguments : PanelIs(a)
       \* a call with every stage on: workers, bootstrap and a file
       \/ /\ DataIs(BootstrapIndexPairs)
          /\ n_jobs = 2
          /\ min_n_per_job = 1
          /\ n_features = AnInt(1)
          /\ n_samplings = MaxSamplings
          /\ PanelIs(<<None, "continuous", "continuous", "prefix">>)
    /\ name = "target"
    /\ target = target_in
    /\ features = features_in
    /\ columns = columns_in
    /\ scores = <<>>
    /\ args = <<>>
    /\ leftovers = <<>>
    /\ pending = {}
    /\ results = <<>>
    /\ permutation_scores = <<>>
    /\ p_values_and_fdrs = <<>>
    /\ indices_to_bootstrap = <<>>
    /\ sampled_scores = <<>>
    /\ annotations = <<>>
    /\ indices_to_plot = <<>>
    /\ files = {}
    /\ log = <<>>
    /\ error = "none"

----------------------------------------------------------------------------
(* make_association_panel: preprocessing.                                  *)

\* target.index & features.columns
Shared(t, cols) == Range(Index(t)) \cap Range(cols)

\* if target_name: target.name = target_name, on the caller's Series
SetName(old, new) == IF new # None THEN new ELSE old

\* set the target name, keep only the columns shared by target and features
Align ==
    /\ pc = "ALIGN"
    /\ name' = SetName(name, target_name)
    /\ LET shared == Shared(target, columns) IN
       IF any(shared)
       THEN \E t \in SortValuesDescending(SelectSeq(target, LAMBDA e : e.key \in shared)) :
              /\ target' = t
              /\ columns' = Index(t)
              /\ features' = [i \in DOMAIN features |->
                                [name |-> features[i].name,
                                 row |-> [k \in shared |-> features[i].row[k]]]]
              /\ log' = Append(log, "shared columns")
              /\ pc' = "FILTER"
              /\ error' = error
       ELSE /\ error' = "0 shared columns"
            /\ pc' = "FAILED"
            /\ UNCHANGED <<target, columns, features, log>>
    /\ UNCHANGED <<inputs, bootstrap, panel, scores, args, leftovers, pending,
                   results, permutation_scores, p_values_and_fdrs>>

min_n_unique_values == 2

\* a count that is one too many
NUniqueOffByOne(f) == Cardinality({f.row[k] : k \in DOMAIN f.row}) + 1

\* len(set(f))
NUnique(f) == Cardinality({f.row[k] : k \in DOMAIN f.row})

\* drop features having less than 2 unique values
Filter ==
    /\ pc = "FILTER"
    /\ LET kept == SelectSeq(features, LAMBDA f : NUnique(f) >= min_n_unique_values) IN
       /\ features' = kept
       /\ IF kept = <<>>
          THEN /\ error' = "no feature has at least 2 unique values"
               /\ pc' = "FAILED"
               /\ log' = Append(log, "dropping features")
          ELSE /\ error' = error
               /\ pc' = "SCORE"
               /\ log' = log \o <<"dropping features", "kept features">>
    /\ UNCHANGED <<inputs, name, bootstrap, panel, target, columns, scores,
                   args, leftovers, pending, results, permutation_scores,
                   p_values_and_fdrs>>

----------------------------------------------------------------------------
(* associate: score_i = function(target, feature_i).                       *)

\* features.iloc[i * n_per_job: (i + 1) * n_per_job, :], i counted from 0
SplitFeatures(frame, i, n_per_job) == Iloc(frame, i * n_per_job, (i + 1) * n_per_job)

\* a grouping that forgets the leftovers
ScoreGroupDroppingLeftovers(frame, jobs, n_per_job) ==
    [args |-> [j \in 1..jobs |-> SplitFeatures(frame, j - 1, n_per_job)],
     leftovers |-> <<>>]

\* the chunks of the scoring stage and the names no chunk removed
ScoreGroup(frame, jobs, n_per_job) ==
    LET chunks == [j \in 1..jobs |-> SplitFeatures(frame, j - 1, n_per_job)] IN
    [args |-> chunks,
     leftovers |-> ListRemoveAll(Names(frame), Names(Concat(chunks)))]

\* a chunk size rounded up instead of down
NPerJobRoundedUp == (Len(features) + n_jobs - 1) \div n_jobs

NPerJob == Len(features) \div n_jobs

\* n_jobs == 1, or n is not enough for parallel computing
ScoreSequential ==
    /\ pc = "SCORE"
    /\ n_jobs = 1 \/ NPerJob < min_n_per_job
    /\ scores' = Score(target, features, columns)
    /\ log' = Append(log, IF n_jobs = 1 THEN "Scoring"
                          ELSE "Scoring (with n_jobs=1)")
    /\ pc' = "SORT"
    /\ UNCHANGED <<inputs, name, bootstrap, panel, target, features, columns,
                   args, leftovers, pending, results, permutation_scores,
                   p_values_and_fdrs, error>>

\* n is enough for parallel computing: group, then parallelize(_score, args)
ScoreDispatch ==
    /\ pc = "SCORE"
    /\ n_jobs # 1
    /\ ~(NPerJob < min_n_per_job)
    /\ LET g == ScoreGroup(features, n_jobs, NPerJob) IN
       /\ args' = g.args
       /\ leftovers' = g.leftovers
       /\ pending' = DOMAIN g.args
       /\ results' = [j \in DOMAIN g.args |-> <<>>]
    /\ log' = Append(log, "Scoring (n_jobs)")
    /\ pc' = "SCORE_JOIN"
    /\ UNCHANGED <<inputs, name, bootstrap, panel, target, features, columns,
                   scores, permutation_scores, p_values_and_fdrs, error>>

\* one worker task: _score((target, split_features, function))
ScoreTask(j) ==
    /\ pc = "SCORE_JOIN"
    /\ j \in pending
    /\ results' = [results EXCEPT ![j] = Score(target, args[j], columns)]
    /\ pending' = pending \ {j}
    /\ UNCHANGED <<inputs, name, bootstrap, panel, pc, target, features,
                   columns, scores, args, leftovers, permutation_scores,
                   p_values_and_fdrs, log, error>>

\* a collection that does not wait for the workers
ScoreCollectWithoutWaiting ==
    /\ pc = "SCORE_JOIN"
    /\ IF leftovers # <<>>
       THEN /\ scores' = Concat(results)
                           \o Score(target, IxRows(features, leftovers), columns)
            /\ log' = Append(log, "Scoring leftovers")
       ELSE /\ scores' = Concat(results)
            /\ log' = log
    /\ pc' = "SORT"
    /\ UNCHANGED <<inputs, name, bootstrap, panel, target, features, columns,
                   args, leftovers, pending, results, permutation_scores,
                   p_values_and_fdrs, error>>

\* concat of the workers' results, then the leftovers
ScoreCollect ==
    /\ pc = "SCORE_JOIN"
    /\ pending = {}
    /\ IF leftovers # <<>>
       THEN /\ scores' = Concat(results)
                           \o Score(target, IxRows(features, leftovers), columns)
            /\ log' = Append(log, "Scoring leftovers")
       ELSE /\ scores' = Concat(results)
            /\ log' = log
    /\ pc' = "SORT"
    /\ UNCHANGED <<inputs, name, bootstrap, panel, target, features, columns,
                   args, leftovers, pending, results, permutation_scores,
                   p_values_and_fdrs, error>>

\* sort by score
Sort ==
    /\ pc = "SORT"
    /\ \E s \in SortByScore(scores, features_ascending) : scores' = s
    /\ pc' = "BOOTSTRAP"
    /\ UNCHANGED <<inputs, name, bootstrap, panel, target, features, columns,
                   args, leftovers, pending, results, permutation_scores,
                   p_values_and_fdrs, log, error>>

----------------------------------------------------------------------------
(* associate: confidence intervals from bootstrapped distributions.  A     *)
(* margin of error z_critical * (std / sqrt(n_samplings)), with the std of *)
(* pandas (n_samplings - 1 degrees of freedom), is kept as the fraction sq *)
(* with moe = z_critical * sqrt(sq), z_critical = norm.ppf(0.95) > 0.      *)

\* isinstance(n_features, int) or isinstance(n_features, float)
IsNumber(x) == x.type \in {"int", "float"}

\* a sample size rounded down instead of up
SampleSizeRoundedDown(m) == (632 * m) \div 1000

\* ceil(0.632 * m)
SampleSize(m) == (632 * m + 999) \div 1000

\* x < 1, for a number x
BelowOne(x) == x.num < x.den

\* 1 - x, for a number x
OneLess(x) == [type |-> "float", num |-> x.den - x.num, den |-> x.den]

\* the values of the score column, ascending
AscendingScores(sc) ==
    LET s == CHOOSE t \in SortByScore(sc, TRUE) : TRUE IN [i \in DOMAIN s |-> s[i].score]

\* q.den * series.quantile(q): the value at position (n - 1) * q of the
\* ascending values, interpolated linearly between its two neighbours
QuantileTimesDen(v, q) ==
    LET h == (Len(v) - 1) * q.num
        lo == h \div q.den
        r == h % q.den
    IN IF r = 0 THEN q.den * v[lo + 1]
       ELSE q.den * v[lo + 1] + r * (v[lo + 2] - v[lo + 1])

\* scores.index[top_quantile | bottom_quantile].tolist()
QuantileSelection(sc, q) ==
    LET v == AscendingScores(sc)
        top == QuantileTimesDen(v, q)
        bottom == QuantileTimesDen(v, OneLess(q))
    IN Names(SelectSeq(sc, LAMBDA r : \/ r.score * q.den >= top
                                     \/ r.score * q.den <= bottom))

\* scores.index[:k].tolist() + scores.index[-k:].tolist()
TopAndBottom(sc, k) ==
    Names(SubSeq(sc, 1, k))
        \o Names(IF k = 0 THEN sc ELSE SubSeq(sc, Len(sc) - k + 1, Len(sc)))

\* a selection by number that always takes top and bottom
IndicesToBootstrapWithoutAll(sc, nf) ==
    IF BelowOne(nf) THEN QuantileSelection(sc, nf)
    ELSE TopAndBottom(sc, nf.num)

\* the features to bootstrap, by percentile or by number
IndicesToBootstrap(sc, nf) ==
    IF BelowOne(nf) THEN QuantileSelection(sc, nf)
    ELSE IF 2 * nf.num >= Len(sc) THEN Names(sc)
    ELSE TopAndBottom(sc, nf.num)

\* choice(features.columns.tolist(), size): draws with replacement
Choice(cols, size) == [1..size -> Range(cols)]

\* target.ix[ramdom_samples]
TargetAt(t, samples) ==
    [i \in DOMAIN samples |-> (CHOOSE e \in Range(t) : e.key = samples[i]).val]

\* the scores of one sampling: function(f, sampled_target) for the rows of
\* features.ix[indices_to_bootstrap, ramdom_samples]
SampledColumn(t, frame, samples) ==
    [i \in DOMAIN frame |-> Func(RowVector(frame[i], samples), TargetAt(t, samples))]

\* the samplings finished so far
Samplings == Len(sampled_scores[1].sampled)

NaN == [nan |-> TRUE]

\* z_critical * (f.std() / sqrt(n_samplings)) of the sampled scores x
MarginOfError(x) ==
    LET n == Len(x) IN
    [nan |-> FALSE, sq |-> Frac(n * Dot(x, x) - Sum(x) * Sum(x), n * (n - 1) * n)]

\* a concatenation by position instead of by feature name
ConcatIntervalsByPosition(sc, sampled) ==
    [i \in DOMAIN sc |->
        [name |-> sc[i].name, score |-> sc[i].score,
         moe |-> IF i \in DOMAIN sampled THEN MarginOfError(sampled[i].sampled)
                 ELSE NaN]]

\* a concatenation that keeps the rows both tables have
ConcatIntervalsInner(sc, sampled) ==
    [i \in DOMAIN sampled |->
        LET r == CHOOSE q \in Range(sc) : q.name = sampled[i].name IN
        [name |-> r.name, score |-> r.score,
         moe |-> MarginOfError(sampled[i].sampled)]]

\* concat([scores, confidence_intervals], join_axes=[scores.index], axis=1)
ConcatIntervals(sc, sampled) ==
    [i \in DOMAIN sc |->
        [name |-> sc[i].name, score |-> sc[i].score,
         moe |-> IF \E j \in DOMAIN sampled : sampled[j].name = sc[i].name
                 THEN MarginOfError((CHOOSE r \in Range(sampled) :
                                        r.name = sc[i].name).sampled)
                 ELSE NaN]]

\* the three tests that leave the stage out
BootstrapSkip ==
    /\ pc = "BOOTSTRAP"
    /\ \/ /\ ~IsNumber(n_features)
          /\ log' = Append(log, "Not computing CI because n_features = None")
       \/ /\ IsNumber(n_features)
          /\ n_samplings < 2
          /\ log' = Append(log, "Not computing CI because n_samplings < 2")
       \/ /\ IsNumber(n_features)
          /\ ~(n_samplings < 2)
          /\ SampleSize(Len(columns)) < 3
          /\ log' = Append(log, "Not computing CI because 0.632 * n_samples < 3")
    /\ pc' = "PERMUTE"
    /\ UNCHANGED <<inputs, name, bootstrap, panel, target, features, columns,
                   scores, args, leftovers, pending, results,
                   permutation_scores, p_values_and_fdrs, error>>

\* choose the features to bootstrap
BootstrapSelect ==
    /\ pc = "BOOTSTRAP"
    /\ IsNumber(n_features)
    /\ ~(n_samplings < 2)
    /\ ~(SampleSize(Len(columns)) < 3)
    /\ indices_to_bootstrap' = IndicesToBootstrap(scores, n_features)
    /\ sampled_scores' = [i \in DOMAIN indices_to_bootstrap' |->
                             [name |-> indices_to_bootstrap'[i], sampled |-> <<>>]]
    /\ log' = Append(log, "Computing CI")
    /\ pc' = "BOOTSTRAP_SAMPLE"
    /\ UNCHANGED <<inputs, name, panel, target, features, columns, scores, args,
                   leftovers, pending, results, permutation_scores,
                   p_values_and_fdrs, error>>

\* a sampling that writes every round after the first over the one before
BootstrapSampleOverwriting ==
    /\ pc = "BOOTSTRAP_SAMPLE"
    /\ Samplings < n_samplings
    /\ \E ramdom_samples \in Choice(columns, SampleSize(Len(columns))) :
          LET column == SampledColumn(target, IxRows(features, indices_to_bootstrap),
                                      ramdom_samples)
          IN sampled_scores' =
                 [i \in DOMAIN sampled_scores |->
                     [sampled_scores[i] EXCEPT !.sampled = <<column[i]>>]]
    /\ UNCHANGED <<inputs, name, panel, pc, target, features, columns, scores,
                   indices_to_bootstrap, args, leftovers, pending, results,
                   permutation_scores, p_values_and_fdrs, log, error>>

\* one sampling: randomly choose 63.2% of the samples and score
BootstrapSample ==
    /\ pc = "BOOTSTRAP_SAMPLE"
    /\ Samplings < n_samplings
    /\ \E ramdom_samples \in Choice(columns, SampleSize(Len(columns))) :
          LET column == SampledColumn(target, IxRows(features, indices_to_bootstrap),
                                      ramdom_samples)
          IN sampled_scores' =
                 [i \in DOMAIN sampled_scores |->
                     [sampled_scores[i] EXCEPT !.sampled = Append(@, column[i])]]
    /\ UNCHANGED <<inputs, name, panel, pc, target, features, columns, scores,
                   indices_to_bootstrap, args, leftovers, pending, results,
                   permutation_scores, p_values_and_fdrs, log, error>>

\* the margins of error of the sampled scores, concatenated to the scores;
\* sampled_scores is not read again and is let go of here
BootstrapConclude ==
    /\ pc = "BOOTSTRAP_SAMPLE"
    /\ ~(Samplings < n_samplings)
    /\ scores' = ConcatIntervals(scores, sampled_scores)
    /\ sampled_scores' = <<>>
    /\ pc' = "PERMUTE"
    /\ UNCHANGED <<inputs, name, indices_to_bootstrap, panel, target, features,
                   columns, args, leftovers, pending, results,
                   permutation_scores, p_values_and_fdrs, log, error>>

----------------------------------------------------------------------------
(* associate: scores against the permuted target.                          *)

\* a draw with replacement instead of a rearrangement
ShuffleResampled(x) == [DOMAIN x -> Range(x)]

\* numpy.random.shuffle(x): any rearrangement of x, in place
Shuffle(x) == Rearrangements(x)

\* the targets of n_perms rounds, each a shuffle of the one before
RECURSIVE ShuffledTargets(_, _)
ShuffledTargets(x, n_perms) ==
    IF n_perms = 0 THEN {<<>>}
    ELSE UNION {{<<y>> \o rest : rest \in ShuffledTargets(y, n_perms - 1)} : y \in Shuffle(x)}

\* the matrix _permute_and_score fills when its rounds draw the targets sh
PermutationMatrix(sh, f, cols) ==
    [i \in DOMAIN f |-> [name |-> f[i].name,
                         null |-> [p \in DOMAIN sh |-> Func(sh[p], RowVector(f[i], cols))]]]

\* _permute_and_score((t, f, func, n_perms)): the matrices it can return
PermuteAndScore(t, f, cols, n_perms) ==
    {PermutationMatrix(sh, f, cols) : sh \in ShuffledTargets(Values(t), n_perms)}

\* a grouping whose chunks overlap by one row
PermutationGroupOverlapping(frame, jobs, n_per_job) ==
    LET chunks == [j \in 1..jobs |->
                      Iloc(frame, (j - 1) * n_per_job, j * n_per_job + 1)] IN
    [args |-> chunks,
     leftovers |-> ListRemoveAll(Names(frame), Names(Concat(chunks)))]

\* the chunks of the permutation stage and the names no chunk removed
PermutationGroup(frame, jobs, n_per_job) ==
    LET chunks == [j \in 1..jobs |-> SplitFeatures(frame, j - 1, n_per_job)] IN
    [args |-> chunks,
     leftovers |-> ListRemoveAll(Names(frame), Names(Concat(chunks)))]

PermuteSkip ==
    /\ pc = "PERMUTE"
    /\ n_permutations < 1
    /\ log' = Append(log, "Not computing P-value and FDR")
    /\ pc' = "SAVE"
    /\ UNCHANGED <<inputs, name, bootstrap, panel, target, features, columns,
                   scores, args, leftovers, pending, results,
                   permutation_scores, p_values_and_fdrs, error>>

PermuteSequential ==
    /\ pc = "PERMUTE"
    /\ ~(n_permutations < 1)
    /\ n_jobs = 1 \/ NPerJob < min_n_per_job
    /\ \E m \in PermuteAndScore(target, features, columns, n_permutations) :
          permutation_scores' = m
    /\ log' = Append(log, IF n_jobs = 1 THEN "Computing P-value & FDR"
                          ELSE "Computing P-value & FDR (with n_jobs=1)")
    /\ pc' = "PVALUE"
    /\ UNCHANGED <<inputs, name, bootstrap, panel, target, features, columns,
                   scores, args, leftovers, pending, results, p_values_and_fdrs,
                   error>>

PermuteDispatch ==
    /\ pc = "PERMUTE"
    /\ ~(n_permutations < 1)
    /\ n_jobs # 1
    /\ ~(NPerJob < min_n_per_job)
    /\ LET g == PermutationGroup(features, n_jobs, NPerJob) IN
       /\ args' = g.args
       /\ leftovers' = g.leftovers
       /\ pending' = DOMAIN g.args
       /\ results' = [j \in DOMAIN g.args |-> <<>>]
    /\ log' = Append(log, "Computing P-value & FDR (n_jobs)")
    /\ pc' = "PERMUTE_JOIN"
    /\ UNCHANGED <<inputs, name, bootstrap, panel, target, features, columns,
                   scores, permutation_scores, p_values_and_fdrs, error>>

\* one worker task: _permute_and_score((target, split_features, function, n_permutations))
PermuteTask(j) ==
    /\ pc = "PERMUTE_JOIN"
    /\ j \in pending
    /\ \E m \in PermuteAndScore(target, args[j], columns, n_permutations) :
          results' = [results EXCEPT ![j] = m]
    /\ pending' = pending \ {j}
    /\ UNCHANGED <<inputs, name, bootstrap, panel, pc, target, features,
                   columns, scores, args, leftovers, permutation_scores,
                   p_values_and_fdrs, log, error>>

PermuteCollect ==
    /\ pc = "PERMUTE_JOIN"
    /\ pending = {}
    /\ IF leftovers # <<>>
       THEN /\ \E m \in PermuteAndScore(target, IxRows(features, leftovers), columns,
                                        n_permutations) :
                  permutation_scores' = Concat(results) \o m
            /\ log' = Append(log, "Scoring against permuted target using leftovers")
       ELSE /\ permutation_scores' = Concat(results)
            /\ log' = log
    /\ pc' = "PVALUE"
    /\ UNCHANGED <<inputs, name, bootstrap, panel, target, features, columns,
                   scores, args, leftovers, pending, results, p_values_and_fdrs,
                   error>>

----------------------------------------------------------------------------
(* associate: P-values and FDRs.                                           *)

\* permutation_scores.values.flatten()
Flatten(matrix) == Concat([i \in DOMAIN matrix |-> matrix[i].null])

\* a count that takes ties for exceedances
CountGreaterOrEqual(all, s) == Sum([i \in DOMAIN all |-> IF all[i] >= s THEN 1 ELSE 0])

\* sum(all_permutation_scores > s)
CountGreater(all, s) == Sum([i \in DOMAIN all |-> IF all[i] > s THEN 1 ELSE 0])

\* a p-value without the floor
PValueUnfloored(all, s, n_perms, n_feat, n_scores) ==
    Frac(CountGreater(all, s), n_perms * n_feat)

\* the global p-value of one score
PValue(all, s, n_perms, n_feat, n_scores) ==
    LET c == CountGreater(all, s) IN
    IF c # 0 THEN Frac(c, n_perms * n_feat) ELSE Frac(1, n_perms * n_scores)

\* the least of a non-empty set of fractions in lowest terms
FracMinOf(S) == CHOOSE x \in S : \A y \in S : FracLeq(x, y)

\* multipletests(pvals, method='fdr_bh')[1]: with the p-values sorted ascending,
\* p_(j) * n / j, made monotone from the largest down and clipped at 1
BenjaminiHochberg(pvals) ==
    LET n == Len(pvals)
        Upto(q) == Cardinality({k \in DOMAIN pvals : FracLeq(pvals[k], q)})
        Raw(j) == Frac(pvals[j].num * n, pvals[j].den * Upto(pvals[j]))
    IN [i \in DOMAIN pvals |->
            FracMinOf({One} \cup {Raw(j) : j \in {k \in DOMAIN pvals :
                                                     FracLeq(pvals[i], pvals[k])}})]

Complement(p) == Frac(p.den - p.num, p.den)

\* the larger of the two instead of the smaller
RowMax(forward, reverse) == FracMax(forward, reverse)

\* .min(axis=1) over 'fdr (forward)' and 'fdr (reverse)'
RowMin(forward, reverse) == FracMin(forward, reverse)

\* the loop over scores.iterrows(): the global p-value of every row of scores
PValueTable(sc, matrix, n_perms, n_feat) ==
    LET all == Flatten(matrix) IN
    [i \in DOMAIN sc |->
        [name |-> sc[i].name,
         p_value |-> PValue(all, sc[i].score, n_perms, n_feat, Len(sc))]]

PValueColumn(table) == [i \in DOMAIN table |-> table[i].p_value]

\* the rows of a table of p-values pv with the two corrections of pv
FDRRows(table, pv, fwd, rev) ==
    [i \in DOMAIN table |->
        [name |-> table[i].name, p_value |-> pv[i], fdr_forward |-> fwd[i],
         fdr_reverse |-> rev[i], fdr |-> RowMin(fwd[i], rev[i])]]

\* the columns 'fdr (forward)', 'fdr (reverse)' and 'fdr' of a table of
\* p-values; as in the code, each column is computed once, from the columns
\* before it
FDRTable(table) ==
    LET Corrected(pv, complements) ==
            {FDRRows(table, pv, fwd, rev) :
                fwd \in {BenjaminiHochberg(pv)}, rev \in {BenjaminiHochberg(complements)}}
        Complemented(pv) ==
            UNION {Corrected(pv, complements) :
                      complements \in {[i \in DOMAIN pv |-> Complement(pv[i])]}}
    IN CHOOSE t \in UNION {Complemented(pv) : pv \in {PValueColumn(table)}} : TRUE

\* concat([scores, p_values_and_fdrs], join_axes=[scores.index], axis=1)
ConcatColumns(sc, table) ==
    [i \in DOMAIN sc |->
        LET r == CHOOSE j \in DOMAIN table : table[j].name = sc[i].name IN
        sc[i] @@ [p_value |-> table[r].p_value,
                  fdr_forward |-> table[r].fdr_forward,
                  fdr_reverse |-> table[r].fdr_reverse, fdr |-> table[r].fdr]]

\* compute local and global P-values
ComputePValues ==
    /\ pc = "PVALUE"
    /\ p_values_and_fdrs' =
           PValueTable(scores, permutation_scores, n_permutations, Len(features))
    /\ log' = Append(log, "Computing P-value and FDR")
    /\ pc' = "FDR"
    /\ UNCHANGED <<inputs, name, bootstrap, panel, target, features, columns,
                   scores, args, leftovers, pending, results,
                   permutation_scores, error>>

\* compute global permutation FDRs, then concatenate
ComputeFDRs ==
    /\ pc = "FDR"
    /\ \E table \in {FDRTable(p_values_and_fdrs)} :
          /\ p_values_and_fdrs' = table
          /\ scores' = ConcatColumns(scores, table)
    /\ pc' = "SAVE"
    /\ UNCHANGED <<inputs, name, bootstrap, panel, target, features, columns,
                   args, leftovers, pending, results, permutation_scores, log,
                   error>>

\* filepath_prefix + '.txt', or None
Filepath(prefix, extension) == IF prefix # None THEN prefix \o extension ELSE None

\* scores.to_csv(filepath), when there is a filepath; return scores
Save ==
    /\ pc = "SAVE"
    /\ LET filepath == Filepath(filepath_prefix, ".txt") IN
       files' = IF filepath # None
                THEN files \cup {[path |-> filepath, table |-> scores]}
                ELSE files
    /\ pc' = "ANNOTATE"
    /\ UNCHANGED <<inputs, name, bootstrap, annotations, indices_to_plot,
                   target, features, columns, scores, args, leftovers, pending,
                   results, permutation_scores, p_values_and_fdrs, log, error>>

----------------------------------------------------------------------------
(* make_association_panel: annotations and plot.  A display string is kept *)
(* as the value it formats; the placeholders 'x.xxx' and 'x.xxe+-xx' are   *)
(* Placeholder.                                                            *)

Placeholder == [placeholder |-> TRUE]

Shown(value) == [placeholder |-> FALSE, value |-> value]

\* concat([features, scores], join_axes=[scores.index], axis=1)
ConcatScores(frame, sc) ==
    [i \in DOMAIN sc |->
        (CHOOSE f \in Range(frame) : f.name = sc[i].name) @@ sc[i]]

\* the cell of a row under a column, NaN when the row has no such column
Cell(r, column) == IF column \in DOMAIN r THEN r[column] ELSE NaN

\* the annotations 'IC', 'P-val' and 'FDR' of one row
Annotation(r) ==
    [name |-> r.name,
     ic |-> [score |-> r.score,
             moe |-> IF Cell(r, "moe").nan THEN Placeholder ELSE Shown(r.moe)],
     p_val |-> IF "p_value" \in DOMAIN r THEN Shown(r.p_value) ELSE Placeholder,
     fdr |-> IF "fdr" \in DOMAIN r THEN Shown(r.fdr) ELSE Placeholder]

\* concatenate features and scores, make annotations
Annotate ==
    /\ pc = "ANNOTATE"
    /\ features' = ConcatScores(features, scores)
    /\ annotations' = [i \in DOMAIN features' |-> Annotation(features'[i])]
    /\ pc' = "LIMIT"
    /\ UNCHANGED <<inputs, name, bootstrap, indices_to_plot, files, target,
                   columns, scores, args, leftovers, pending, results,
                   permutation_scores, p_values_and_fdrs, log, error>>

\* n_features > 100 or (n_features < 1 and n_features * features.shape[0] > 100)
TooManyToPlot(nf, rows) ==
    \/ nf.num > 100 * nf.den
    \/ BelowOne(nf) /\ nf.num * rows > 100 * nf.den

\* the features to plot, by percentile or by number
IndicesToPlot(frame, nf) ==
    IF BelowOne(nf) THEN QuantileSelection(frame, nf)
    ELSE IF 2 * nf.num >= Len(frame) THEN Names(frame)
    ELSE TopAndBottom(frame, nf.num)

\* limit the features to plot; comparing None with a number raises
LimitFeatures ==
    /\ pc = "LIMIT"
    /\ IF ~IsNumber(n_features)
       THEN /\ error' = "TypeError: None compared with a number"
            /\ pc' = "FAILED"
            /\ UNCHANGED indices_to_plot
       ELSE /\ indices_to_plot' =
                   IndicesToPlot(features,
                                 IF TooManyToPlot(n_features, Len(features))
                                 THEN AnInt(100) ELSE n_features)
            /\ pc' = "PLOT"
            /\ UNCHANGED error
    /\ UNCHANGED <<inputs, name, bootstrap, annotations, files, target,
                   features, columns, scores, args, leftovers, pending, results,
                   permutation_scores, p_values_and_fdrs, log>>

\* _prepare_data_for_plotting knows these data types
PlotTypes == {"continuous", "categorical", "binary"}

\* _plot_association_panel: prepare target and features, plot, save_plot(filepath)
Plot ==
    /\ pc = "PLOT"
    /\ IF target_type \in PlotTypes /\ features_type \in PlotTypes
       THEN /\ LET filepath == Filepath(filepath_prefix, ".pdf") IN
               files' = IF filepath # None
                        THEN files \cup {[path |-> filepath,
                                          table |-> IxRows(annotations, indices_to_plot)]}
                        ELSE files
            /\ pc' = "RETURN"
            /\ UNCHANGED error
       ELSE /\ error' = "Target data type must be one of {continuous, categorical, binary}"
            /\ pc' = "FAILED"
            /\ UNCHANGED files
    /\ UNCHANGED <<inputs, name, bootstrap, annotations, indices_to_plot,
                   target, features, columns, scores, args, leftovers, pending,
                   results, permutation_scores, p_values_and_fdrs, log>>

\* return scores
Return ==
    /\ pc = "RETURN"
    /\ pc' = "DONE"
    /\ UNCHANGED <<inputs, name, bootstrap, panel, target, features, columns,
                   scores, args, leftovers, pending, results,
                   permutation_scores, p_values_and_fdrs, log, error>>

----------------------------------------------------------------------------
Next ==
    \/ Align
    \/ Filter
    \/ ScoreSequential
    \/ ScoreDispatch
    \/ \E j \in pending : ScoreTask(j)
    \/ ScoreCollect
    \/ Sort
    \/ BootstrapSkip
    \/ BootstrapSelect
    \/ BootstrapSample
    \/ BootstrapConclude
    \/ PermuteSkip
    \/ PermuteSequential
    \/ PermuteDispatch
    \/ \E j \in pending : PermuteTask(j)
    \/ PermuteCollect
    \/ ComputePValues
    \/ ComputeFDRs
    \/ Save
    \/ Annotate
    \/ LimitFeatures
    \/ Plot
    \/ Return

Spec == Init /\ [][Next]_vars

\* the calls of the fair runs: two workers, over one or four feature columns
FairInit ==
    /\ Init
    /\ n_jobs = 2
    /\ Len(columns_in) \in {1, 4}

\* the interpreter goes on with the calling code whenever it can, and the
\* pool runs a dispatched task whenever there is one: a step that can be
\* taken is taken
FairSpec == FairInit /\ [][Next]_vars /\ WF_vars(Next)
----------------------------------------------------------------------------
(* Properties.                                                             *)

InLog(msg) == \E i \in DOMAIN log : log[i] = msg

ScoredInParallel == InLog("Scoring (n_jobs)")

ScoredSequentially == InLog("Scoring") \/ InLog("Scoring (with n_jobs=1)")

PermutedInParallel == InLog("Computing P-value & FDR (n_jobs)")

PermutedSequentially ==
    InLog("Computing P-value & FDR") \/ InLog("Computing P-value & FDR (with n_jobs=1)")

Occurrences(seq, x) == Cardinality({i \in DOMAIN seq : seq[i] = x})

\* associate has returned its table to make_association_panel
Returned == pc \in {"ANNOTATE", "LIMIT", "PLOT", "RETURN", "DONE"}

\* the score table is complete: associate is about to save it, or has returned
Tabled == pc = "SAVE" \/ Returned

Scored ==
    \/ pc \in {"SORT", "BOOTSTRAP", "BOOTSTRAP_SAMPLE", "PERMUTE", "PERMUTE_JOIN",
                "PVALUE", "FDR"}
    \/ Tabled

\* C1: partition equivalence of scoring.  After a scoring stage that went
\* through chunks and leftovers, every feature (the names are unique) has
\* exactly one row in the score table, and its score is the one _score gives
\* it over the whole matrix.
C1_PartitionEquivalence ==
    (Scored /\ ScoredInParallel) =>
        LET whole == Score(target, features, columns) IN
        /\ Len(scores) = Len(features)
        /\ \A i \in DOMAIN whole :
              /\ Occurrences(Names(scores), whole[i].name) = 1
              /\ \A j \in DOMAIN scores :
                    scores[j].name = whole[i].name => scores[j].score = whole[i].score

C1_Witness ==
    /\ pc = "SORT"
    /\ ScoredInParallel
    /\ leftovers # <<>>
    /\ Len(features) >= 3

\* the result table as a set of rows: scores sc and null matrix m
ResultRows(sc, matrix) ==
    Range(ConcatColumns(sc, FDRTable(PValueTable(sc, matrix, n_permutations,
                                                 Len(features)))))

\* the result tables a run with n_jobs = 1 can return on the aligned input
SequentialTables ==
    {ResultRows(Score(target, features, columns), m) :
        m \in PermuteAndScore(target, features, columns, n_permutations)}

\* C2: results do not depend on the partition.  Every result table (score,
\* p-value, forward, reverse and combined FDR per feature) a partitioned run
\* returns is a table the sequential run can return on the same input.
C2_PartitionIndependentResults ==
    (pc = "DONE" /\ PermutedInParallel) => Range(scores) \in SequentialTables

\* C3: leftover handling.  On the parallel path, in the scoring and in the
\* permutation stage, chunk j holds exactly rows (j-1)k+1 .. jk, the leftovers
\* are exactly the last n mod w rows, chunks and leftovers together are the
\* feature rows once each, and the leftover results follow the chunk results.
C3_LeftoverHandling ==
    LET n == Len(features)
        k == n \div n_jobs
    IN /\ pc \in {"SCORE_JOIN", "PERMUTE_JOIN"} =>
            /\ Len(args) = n_jobs
            /\ \A j \in 1..n_jobs : args[j] = SubSeq(features, (j - 1) * k + 1, j * k)
            /\ leftovers = Names(SubSeq(features, n_jobs * k + 1, n))
            /\ Len(leftovers) = n % n_jobs
            /\ Concat(args) \o IxRows(features, leftovers) = features
       /\ (pc = "SORT" /\ ScoredInParallel) =>
            /\ Names(scores) = Names(Concat(args)) \o leftovers
            /\ \A i \in DOMAIN features :
                  Occurrences(Names(scores), features[i].name) = 1
       /\ (pc = "PVALUE" /\ PermutedInParallel) =>
            /\ Names(permutation_scores) = Names(Concat(args)) \o leftovers
            /\ \A i \in DOMAIN features :
                  Occurrences(Names(permutation_scores), features[i].name) = 1

C3_Witness ==
    /\ pc = "PVALUE"
    /\ PermutedInParallel
    /\ ScoredInParallel
    /\ leftovers # <<>>

\* the decision of section 4.2: too few items per worker, or one worker
RunsSequentially == n_jobs = 1 \/ (Len(features) \div n_jobs) < min_n_per_job

\* C4: partition decision.  Both stages run sequentially when n_jobs = 1 or
\* n // n_jobs < min_n_per_job, and otherwise hand exactly n_jobs chunks to
\* the workers; the two stages of one run decide alike.
C4_PartitionDecision ==
    /\ (pc \in {"SCORE_JOIN"} \/ Scored) =>
            /\ ScoredInParallel <=> ~RunsSequentially
            /\ ScoredSequentially <=> RunsSequentially
    /\ pc \in {"SCORE_JOIN", "PERMUTE_JOIN"} =>
            /\ ~RunsSequentially
            /\ Len(args) = n_jobs
            /\ DOMAIN results = 1..n_jobs
            /\ pending \subseteq 1..n_jobs
    /\ (pc \in {"PERMUTE_JOIN", "PVALUE", "FDR"}
          \/ (Tabled /\ n_permutations >= 1)) =>
            /\ PermutedInParallel <=> ScoredInParallel
            /\ PermutedSequentially <=> ScoredSequentially

C4_Witness ==
    /\ pc = "DONE"
    /\ PermutedInParallel
    /\ ScoredInParallel
    /\ pending = {}
    /\ Len(args) = n_jobs

NonIncreasing(series) ==
    \A i \in 1..(Len(series) - 1) : series[i].val >= series[i + 1].val

\* C5: alignment determinism.  Whenever target and features share a sample
\* key, whatever the keys are, the alignment succeeds: the target holds
\* exactly the shared keys in non-increasing order of value and the feature
\* columns are those keys in the same order.
C5_AlignmentSucceeds ==
    (pc # "ALIGN" /\ Shared(target_in, columns_in) # {}) =>
        /\ error # "0 shared columns"
        /\ Range(Index(target)) = Shared(target_in, columns_in)
        /\ Len(target) = Cardinality(Shared(target_in, columns_in))
        /\ NonIncreasing(target)
        /\ columns = Index(target)
        /\ \A i \in DOMAIN features : DOMAIN features[i].row = Range(columns)

\* C6: empty intersection.  With no shared sample key the run fails at ALIGN
\* with the error, before any filtering or scoring, and has no result table.
C6_EmptyIntersectionFails ==
    (pc # "ALIGN" /\ Shared(target_in, columns_in) = {}) =>
        /\ pc = "FAILED"
        /\ error = "0 shared columns"
        /\ log = <<>>
        /\ features = features_in
        /\ scores = <<>>
        /\ permutation_scores = <<>>
        /\ p_values_and_fdrs = <<>>

C6_Witness ==
    /\ pc = "FAILED"
    /\ Shared(target_in, columns_in) = {}
    /\ target_in # <<>>
    /\ columns_in # <<>>

\* at least 2 distinct values over the shared sample keys
Viable(f, shared) == Cardinality({f.row[k] : k \in shared}) >= 2

ViableRows == SelectSeq(features_in, LAMBDA f : Viable(f, Shared(target_in, columns_in)))

Aligned == pc \notin {"ALIGN"} /\ error # "0 shared columns"

\* C7: degeneracy filtering.  The rows passed to scoring are exactly the rows
\* with at least 2 distinct values over the aligned sample keys, no other row
\* is in the scored output, and when every row is degenerate the run fails
\* with the error before any scoring.
C7_DegeneracyFiltering ==
    /\ (Aligned /\ pc \notin {"FILTER", "FAILED"}) =>
            /\ ViableRows # <<>>
            /\ Range(Names(features)) = Range(Names(ViableRows))
            /\ Len(features) = Len(ViableRows)
            /\ pc \notin {"LIMIT", "PLOT", "RETURN", "DONE"} =>
                    Names(features) = Names(ViableRows)
    /\ Scored => Range(Names(scores)) = Range(Names(ViableRows))
    /\ (Aligned /\ pc # "FILTER" /\ ViableRows = <<>>) =>
            /\ pc = "FAILED"
            /\ error = "no feature has at least 2 unique values"
            /\ scores = <<>>
            /\ ~ScoredInParallel /\ ~ScoredSequentially
    /\ error = "no feature has at least 2 unique values" => ViableRows = <<>>

C7_Witness ==
    /\ pc = "DONE"
    /\ \E i \in DOMAIN features_in :
          /\ features_in[i].name \notin Range(Names(scores))
          /\ Cardinality({features_in[i].row[k] : k \in DOMAIN features_in[i].row}) >= 2
    /\ scores # <<>>

PermutationRan == (pc = "FDR" \/ Tabled) /\ n_permutations >= 1

NullSize == Len(features) * n_permutations

\* C8: p-value floor and range.  Every reported p-value p of a run with
\* P >= 1 permutations over n features has 1/(n*P) <= p <= 1 and is never 0,
\* in sequential and in partitioned runs.
C8_PValueRange ==
    PermutationRan =>
        /\ Len(p_values_and_fdrs) = Len(features)
        /\ \A i \in DOMAIN p_values_and_fdrs :
              LET p == p_values_and_fdrs[i].p_value IN
              /\ p.num > 0
              /\ FracLeq(Frac(1, NullSize), p)
              /\ FracLeq(p, One)
        /\ Tabled =>
              \A i \in DOMAIN scores :
                  /\ scores[i].p_value.num > 0
                  /\ FracLeq(Frac(1, NullSize), scores[i].p_value)
                  /\ FracLeq(scores[i].p_value, One)

\* the null values strictly above s, as (row, round) pairs of the matrix
Exceedances(s) ==
    {<<i, p>> \in (DOMAIN permutation_scores) \X (1..n_permutations) :
        permutation_scores[i].null[p] > s}

C8_Witness ==
    /\ pc = "DONE"
    /\ PermutedInParallel
    /\ \E i \in DOMAIN scores :
          /\ Exceedances(scores[i].score) = {}
          /\ scores[i].p_value = Frac(1, NullSize)
    /\ \E i \in DOMAIN scores : scores[i].p_value = One

\* C9: empirical p-value.  The pooled null holds one value per (feature,
\* round) pair, n*P in all, and the p-value of a feature with score s is the
\* number of pooled values strictly greater than s over n*P, or 1/(n*P) when
\* that number is zero.
C9_EmpiricalPValue ==
    PermutationRan =>
        /\ Len(Flatten(permutation_scores)) = NullSize
        /\ \A i \in DOMAIN features :
              Occurrences(Names(permutation_scores), features[i].name) = 1
        /\ \A i \in DOMAIN permutation_scores :
              DOMAIN permutation_scores[i].null = 1..n_permutations
        /\ \A i \in DOMAIN p_values_and_fdrs :
              \E j \in DOMAIN scores :
                  /\ scores[j].name = p_values_and_fdrs[i].name
                  /\ LET c == Cardinality(Exceedances(scores[j].score)) IN
                     p_values_and_fdrs[i].p_value =
                         IF c = 0 THEN Frac(1, NullSize) ELSE Frac(c, NullSize)

C9_Witness ==
    /\ pc = "DONE"
    /\ PermutedInParallel
    /\ \E i \in DOMAIN scores :
          LET c == Cardinality(Exceedances(scores[i].score)) IN
          /\ c > 0
          /\ c < NullSize
          /\ \E x \in Range(Flatten(permutation_scores)) : x = scores[i].score

\* the least of a non-empty set of fractions in lowest terms
LeastFrac(S) == CHOOSE x \in S : \A y \in S : FracLeq(x, y)

\* the Benjamini-Hochberg correction by ranks: under an ascending order o of
\* the p-values pv, the value at rank r is the least of 1 and pv * n / r'
\* over the ranks r' >= r
IsBenjaminiHochberg(adjusted, pv) ==
    LET n == Len(pv) IN
    /\ DOMAIN adjusted = DOMAIN pv
    /\ \A o \in Orderings(n) :
          (\A r \in 1..(n - 1) : FracLeq(pv[o[r]], pv[o[r + 1]])) =>
              \A r \in 1..n :
                  adjusted[o[r]] =
                      LeastFrac({One} \cup {Frac(pv[o[q]].num * n, pv[o[q]].den * q) :
                                              q \in r..n})

\* C10: FDR combination.  For every feature the combined FDR is the smaller
\* of the forward and the reverse FDR, hence at most the larger, where
\* forward is the Benjamini-Hochberg correction of the p-values and reverse
\* that of 1 - p-value.
C10_FDRCombination ==
    (Tabled /\ n_permutations >= 1) =>
        /\ \A i \in DOMAIN scores :
              LET r == scores[i] IN
              /\ r.fdr \in {r.fdr_forward, r.fdr_reverse}
              /\ FracLeq(r.fdr, r.fdr_forward)
              /\ FracLeq(r.fdr, r.fdr_reverse)
              /\ FracLeq(r.fdr, FracMax(r.fdr_forward, r.fdr_reverse))
        /\ IsBenjaminiHochberg([i \in DOMAIN scores |-> scores[i].fdr_forward],
                               [i \in DOMAIN scores |-> scores[i].p_value])
        /\ IsBenjaminiHochberg([i \in DOMAIN scores |-> scores[i].fdr_reverse],
                               [i \in DOMAIN scores |->
                                   Frac(scores[i].p_value.den - scores[i].p_value.num,
                                        scores[i].p_value.den)])

C10_Witness ==
    /\ pc = "DONE"
    /\ n_permutations >= 1
    /\ Len(scores) >= 2
    /\ \E i \in DOMAIN scores :
          /\ FracLess(scores[i].fdr_reverse, scores[i].fdr_forward)
          /\ scores[i].fdr = scores[i].fdr_reverse
    /\ \E i \in DOMAIN scores :
          /\ FracLess(scores[i].fdr_forward, scores[i].fdr_reverse)
          /\ scores[i].fdr = scores[i].fdr_forward

\* the stages after the sort of the score table
Sorted ==
    \/ pc \in {"BOOTSTRAP", "BOOTSTRAP_SAMPLE", "PERMUTE", "PERMUTE_JOIN", "PVALUE", "FDR"}
    \/ Tabled

\* the feature row of a name, as a vector over the aligned columns
FeatureVector(label) ==
    RowVector(features[CHOOSE i \in DOMAIN features : features[i].name = label], columns)

\* C11: end-to-end ranking and floor.  With features_ascending = False a
\* feature with a strictly higher score stands above every feature with a
\* lower score, from the sort to the returned table, and a feature whose score
\* no value of the pooled null exceeds has the p-value exactly 1/(n*P).
C11_RankingAndFloor ==
    /\ (Sorted /\ ~features_ascending) =>
            \A i, j \in DOMAIN scores :
                scores[i].score > scores[j].score => i < j
    /\ (Tabled /\ n_permutations >= 1) =>
            \A i \in DOMAIN scores :
                Exceedances(scores[i].score) = {} =>
                    scores[i].p_value = Frac(1, n_permutations * Len(scores))

\* a feature equal to the target ranks first, above a feature with a lower
\* score, and its p-value is the floor
C11_Witness ==
    /\ pc = "DONE"
    /\ ~features_ascending
    /\ n_permutations = MaxPermutations
    /\ Len(scores) >= 2
    /\ FeatureVector(scores[1].name) = Values(target)
    /\ scores[1].score > scores[Len(scores)].score
    /\ Exceedances(scores[1].score) = {}
    /\ scores[1].p_value = Frac(1, n_permutations * Len(scores))

\* the stages after the bootstrap stage
AfterBootstrap == pc \in {"PERMUTE", "PERMUTE_JOIN", "PVALUE", "FDR"} \/ Tabled

\* the aligned samples of the run
AlignedSamples == Cardinality(Shared(target_in, columns_in))

\* the result table has the column '0.95 moe'
HasMoeColumn == scores # <<>> /\ \A i \in DOMAIN scores : "moe" \in DOMAIN scores[i]

NoMoeColumn == \A i \in DOMAIN scores : "moe" \notin DOMAIN scores[i]

BootstrapRan == InLog("Computing CI")

\* n_features is no number, or n_samplings < 2, or ceil(0.632 * m) < 3 (that
\* is, 0.632 * m <= 2)
BootstrapSkipCondition ==
    \/ n_features.type \notin {"int", "float"}
    \/ n_samplings < 2
    \/ 632 * AlignedSamples <= 2000

C14_NoIntervalForTwoSamplings ==
    AfterBootstrap =>
        /\ HasMoeColumn => n_samplings > 2
        /\ n_samplings = 2 => ~BootstrapRan /\ NoMoeColumn

HasPValueColumns ==
    /\ scores # <<>>
    /\ \A i \in DOMAIN scores :
          {"p_value", "fdr_forward", "fdr_reverse", "fdr"} \subseteq DOMAIN scores[i]

NoPValueColumns ==
    \A i \in DOMAIN scores :
        {"p_value", "fdr_forward", "fdr_reverse", "fdr"} \cap DOMAIN scores[i] = {}

\* the value types of section 3
ValueTypes == {"continuous", "categorical", "binary"}

RecognizedTypes == target_type \in ValueTypes /\ features_type \in ValueTypes

\* the fatal errors of the alignment and of the degeneracy filter
InputErrors == {"0 shared columns", "no feature has at least 2 unique values"}

\* C15: skipped stages never abort the run.  Under every combination of the
\* bootstrap-skip conditions and the permutation-skip condition, a run on
\* valid aligned input with recognized value types does not fail; the table
\* associate returns has the margin-of-error column if and only if the
\* bootstrap stage ran and the p-value and FDR columns if and only if the
\* permutation stage ran, whether or not the bootstrap stage was skipped.
C15_SkippedStagesNeverAbort ==
    /\ (pc = "FAILED" /\ RecognizedTypes) => error \in InputErrors
    /\ Returned =>
            /\ HasMoeColumn <=> ~BootstrapSkipCondition
            /\ NoMoeColumn <=> BootstrapSkipCondition
            /\ HasPValueColumns <=> n_permutations >= 1
            /\ NoPValueColumns <=> n_permutations < 1

\* C16: no partial output on a fatal path.  When a run of
\* make_association_panel ends in a fatal error, no .txt score table has been
\* written.
C16_NoPartialOutput ==
    pc = "FAILED" => \A f \in files : f.path # Filepath(filepath_prefix, ".txt")

\* C17: an unrecognized value-type tag is surfaced immediately.  With a
\* target_type or features_type outside continuous/categorical/binary no
\* scoring, bootstrap or permutation work is ever performed, and the run ends
\* in the fatal error.
C17_TypeTagSurfacedImmediately ==
    ~RecognizedTypes =>
        /\ ~Scored
        /\ pc \notin {"SCORE_JOIN", "DONE"}
        /\ scores = <<>>
        /\ ~BootstrapRan
        /\ permutation_scores = <<>>
        /\ ~ScoredSequentially /\ ~ScoredInParallel

\* C18: read-only inputs.  No step of a run changes the caller's target
\* (values, sample identifiers, name) or feature matrix, whatever the
\* arguments, and no step after the alignment, a worker task included,
\* changes the aligned target the tasks share.
C18_ReadOnlyInputs ==
    [][/\ UNCHANGED <<target_in, features_in, columns_in, name>>
       /\ pc # "ALIGN" => UNCHANGED target]_vars

SameMultiset(a, b) ==
    /\ Len(a) = Len(b)
    /\ \A v \in Range(a) \cup Range(b) : Occurrences(a, v) = Occurrences(b, v)

C20_OneShufflePerRound ==
    pc = "PVALUE" =>
        permutation_scores \in
            PermuteAndScore(target, IxRows(features, Names(permutation_scores)),
                            columns, n_permutations)

\* the positions of a run, in the order of the code
Positions ==
    <<"ALIGN", "FILTER", "SCORE", "SCORE_JOIN", "SORT", "BOOTSTRAP",
      "BOOTSTRAP_SAMPLE", "PERMUTE", "PERMUTE_JOIN", "PVALUE", "FDR", "SAVE",
      "ANNOTATE", "LIMIT", "PLOT", "RETURN", "DONE", "FAILED">>

Position(p) == CHOOSE i \in DOMAIN Positions : Positions[i] = p

\* the score table is in the order features_ascending asks for
InDirection(sc) ==
    \A i \in 1..(Len(sc) - 1) :
        IF features_ascending THEN sc[i].score <= sc[i + 1].score
        ELSE sc[i].score >= sc[i + 1].score

\* what holds at the positions of a run
StagesInOrder ==
    /\ pc \in Range(Positions)
    \* nothing of a later stage exists before its stage
    /\ Position(pc) <= Position("SORT") => ~InLog("Computing CI")
    /\ Position(pc) <= Position("BOOTSTRAP") =>
            /\ indices_to_bootstrap = <<>>
            /\ NoMoeColumn
    /\ Position(pc) <= Position("PERMUTE") =>
            /\ permutation_scores = <<>>
            /\ p_values_and_fdrs = <<>>
            /\ ~PermutedInParallel /\ ~PermutedSequentially
            /\ NoPValueColumns
    /\ Position(pc) <= Position("SAVE") => files = {}
    /\ Position(pc) <= Position("ANNOTATE") => annotations = <<>>
    \* the sort starts with the scores of every chunk and of the leftovers
    /\ pc \in {"SCORE", "SCORE_JOIN"} => scores = <<>>
    /\ pc = "SORT" =>
            /\ pending = {}
            /\ Len(scores) = Len(features)
            /\ \A i \in DOMAIN features :
                  Occurrences(Names(scores), features[i].name) = 1
    \* the bootstrap selection is made on the sorted table
    /\ pc = "BOOTSTRAP" => InDirection(scores)
    /\ pc = "BOOTSTRAP_SAMPLE" =>
            /\ InDirection(scores)
            /\ indices_to_bootstrap = IndicesToBootstrap(scores, n_features)
    \* a failure of the alignment or of the filter ends the run
    /\ error \in InputErrors =>
            /\ pc = "FAILED"
            /\ scores = <<>>
            /\ ~ScoredInParallel /\ ~ScoredSequentially
            /\ ~InLog("Computing CI")
            /\ files = {}
    /\ pc = "FAILED" => ~ENABLED Next

\* C21: stage ordering.  The positions of a run are entered in the order
\* ALIGN, FILTER, SCORE, SORT, BOOTSTRAP, PERMUTE, save, DONE, each at most
\* once; the sort starts only with the scores of all chunks and leftovers
\* collected, the bootstrap selection is made on the sorted table, and after a
\* failure in ALIGN or FILTER no later stage is entered.
C21_StageOrdering ==
    /\ []StagesInOrder
    /\ [][/\ pc' # pc => Position(pc') > Position(pc)
          /\ pc = "FAILED" => pc' = "FAILED"
          /\ error \in InputErrors => UNCHANGED vars]_vars

\* a run through every stage: chunks and leftovers, bootstrap, permutation
\* test and save
C21_Witness ==
    /\ pc = "DONE"
    /\ ScoredInParallel
    /\ leftovers # <<>>
    /\ BootstrapRan
    /\ files # {}
    /\ HasMoeColumn
    /\ n_permutations >= 1
    /\ HasPValueColumns
    /\ Len(scores) >= 3

\* the .txt files written
ScoreFiles == {f \in files : f.path = Filepath(filepath_prefix, ".txt")}

\* table has exactly one row per feature, in the order features_ascending asks for
OrderedAndComplete(table) ==
    /\ Len(table) = Len(features)
    /\ \A i \in DOMAIN features : Occurrences(Names(table), features[i].name) = 1
    /\ InDirection(table)

\* row r with the columns of row q in it unchanged
Extends(r, q) == DOMAIN q \subseteq DOMAIN r /\ \A c \in DOMAIN q : r[c] = q[c]

\* C22: result table order and completeness.  The table associate returns,
\* and the one it saves, has exactly one row per feature passed to scoring, by
\* score non-decreasing when features_ascending is true and non-increasing when
\* false; from the sort on, the steps that merge the bootstrap and the
\* permutation columns keep every row at its place, with its columns.
C22_TableOrderAndCompleteness ==
    /\ [](/\ Sorted => OrderedAndComplete(scores)
          /\ \A f \in ScoreFiles : f.table = scores /\ OrderedAndComplete(f.table)
          /\ (filepath_prefix # None /\ Returned) => ScoreFiles # {})
    /\ [][Sorted =>
            /\ Names(scores') = Names(scores)
            /\ \A i \in DOMAIN scores : Extends(scores'[i], scores[i])]_vars

\* a saved table of three features with distinct scores, the margin of error
\* of one of them undefined, and p-values
C22_Witness ==
    /\ pc = "DONE"
    /\ Len(scores) = 3
    /\ scores[1].score # scores[2].score
    /\ scores[2].score # scores[3].score
    /\ BootstrapRan
    /\ \E i \in DOMAIN scores : scores[i].moe.nan
    /\ HasPValueColumns
    /\ \E f \in ScoreFiles : f.table = scores

\* den * (the q-th quantile of the scores): with the scores ascending v_0 ..
\* v_(n-1), the value at the position (n - 1) * q, between v_k and v_(k+1) in
\* proportion to the fractional part of the position
ScoreQuantileTimesDen(q) ==
    LET v == AscendingScores(scores)
        n == Len(v)
        k == CHOOSE j \in 0..(n - 1) :
                 j * q.den <= (n - 1) * q.num /\ (n - 1) * q.num < (j + 1) * q.den
        part == (n - 1) * q.num - k * q.den
    IN IF part = 0 THEN q.den * v[k + 1]
       ELSE (q.den - part) * v[k + 1] + part * v[k + 2]

\* C23: bootstrap selection policy.  For an integer n_features = N >= 1 over
\* the sorted table of n features the selection is all n features when
\* 2N >= n and otherwise the first N rows followed by the last N rows, 2N
\* distinct features; for a fraction N < 1 it is exactly the features whose
\* score is >= the N-th quantile or <= the (1-N)-th quantile of the scores;
\* the selection holds no feature twice and only scored features.
C23_BootstrapSelectionPolicy ==
    BootstrapRan =>
        LET n == Len(scores)
            N == n_features
            selected == Range(indices_to_bootstrap)
        IN /\ selected \subseteq Range(Names(scores))
           /\ Cardinality(selected) = Len(indices_to_bootstrap)
           /\ (N.type = "int" /\ N.num >= 1 /\ 2 * N.num >= n) =>
                 indices_to_bootstrap = Names(scores)
           /\ (N.type = "int" /\ N.num >= 1 /\ 2 * N.num < n) =>
                 /\ Len(indices_to_bootstrap) = 2 * N.num
                 /\ \A i \in 1..N.num :
                       /\ indices_to_bootstrap[i] = scores[i].name
                       /\ indices_to_bootstrap[N.num + i] = scores[n - N.num + i].name
           /\ (N.type = "float" /\ N.num < N.den) =>
                 \A i \in DOMAIN scores :
                     scores[i].name \in selected <=>
                         \/ scores[i].score * N.den >= ScoreQuantileTimesDen(N)
                         \/ scores[i].score * N.den
                                <= ScoreQuantileTimesDen([num |-> N.den - N.num,
                                                          den |-> N.den])

\* n_features = 1 over three features: the first and the last row, the middle
\* one left out
C23_Witness ==
    /\ pc = "DONE"
    /\ BootstrapRan
    /\ n_features = AnInt(1)
    /\ Len(scores) = 3
    /\ indices_to_bootstrap = <<scores[1].name, scores[3].name>>
    /\ scores[2].name \notin Range(indices_to_bootstrap)

\* the default n_features = 0.95 leaves a feature between the two quantiles out
C23_QuantileCase ==
    /\ pc = "DONE"
    /\ BootstrapRan
    /\ n_features = DefaultNFeatures
    /\ Len(scores) = 3
    /\ Len(indices_to_bootstrap) = 2

\* the feature row of a name
FeatureRow(label) == features[CHOOSE i \in DOMAIN features : features[i].name = label]

\* C24: consistent argument order of the scoring function.  The scoring, the
\* bootstrap and the permutation stage all call function(target vector,
\* feature vector): every score is function(target, feature), every sampled
\* score of a bootstrap round is function(sampled target, sampled feature)
\* for the samples of the round, and every null score is function(shuffled
\* target, feature).
C24_ConsistentArgumentOrder ==
    /\ (Scored /\ pc \notin {"LIMIT", "PLOT", "RETURN", "DONE"}) =>
            \A i \in DOMAIN scores :
                scores[i].score = Func(Values(target), FeatureVector(scores[i].name))
    /\ pc = "BOOTSTRAP_SAMPLE" =>
            \A k \in 1..Samplings :
                \E samples \in Choice(columns, SampleSize(Len(columns))) :
                    \A i \in DOMAIN sampled_scores :
                        sampled_scores[i].sampled[k] =
                            Func(TargetAt(target, samples),
                                 RowVector(FeatureRow(sampled_scores[i].name), samples))
    /\ pc = "PVALUE" =>
            \A i \in DOMAIN permutation_scores : \A p \in 1..n_permutations :
                \E sh \in Shuffle(Values(target)) :
                    permutation_scores[i].null[p] =
                        Func(sh, FeatureVector(permutation_scores[i].name))

\* the run is over: the panel is made, or an error is raised
Ended == pc \in {"DONE", "FAILED"}

\* associate is over: it has returned its table, or the run has failed
AssociateEnded == Returned \/ pc = "FAILED"

\* the rounds done and the tasks waited for, at the positions of a run
RoundsAndJoins ==
    /\ Ended => AssociateEnded
    /\ pc = "BOOTSTRAP_SAMPLE" =>
            \A i \in DOMAIN sampled_scores :
                /\ Len(sampled_scores[i].sampled) = Samplings
                /\ Samplings <= n_samplings
    /\ pc = "PERMUTE_JOIN" =>
            \A j \in DOMAIN results :
                IF j \in pending THEN results[j] = <<>>
                ELSE /\ Names(results[j]) = Names(args[j])
                     /\ \A i \in DOMAIN results[j] :
                           Len(results[j][i].null) = n_permutations
    /\ pc \in {"PVALUE", "FDR"} =>
            \A i \in DOMAIN permutation_scores :
                Len(permutation_scores[i].null) = n_permutations
    /\ pc \notin {"SCORE_JOIN", "PERMUTE_JOIN"} => pending = {}
    /\ pc \in {"SCORE_JOIN", "PERMUTE_JOIN"} =>
            /\ ~InLog(IF pc = "SCORE_JOIN" THEN "Scoring leftovers"
                      ELSE "Scoring against permuted target using leftovers")
            /\ IF pc = "SCORE_JOIN" THEN scores = <<>> ELSE permutation_scores = <<>>

\* a step out of the bootstrap loop, or past a join
RoundsAndJoinsStep ==
    /\ (pc = "BOOTSTRAP_SAMPLE" /\ pc' # pc) => Samplings = n_samplings
    /\ (pc = "BOOTSTRAP_SAMPLE" /\ pc' = pc) =>
            Len(sampled_scores'[1].sampled) = Samplings + 1
    /\ (pc \in {"SCORE_JOIN", "PERMUTE_JOIN"} /\ pc' # pc) =>
            /\ pending = {}
            /\ \A j \in DOMAIN args : Names(results[j]) = Names(args[j])

\* C25: termination.  Under fair scheduling of the calling code and of the
\* dispatched worker tasks every run ends, and by then associate has returned
\* its table or an error is raised.  A bootstrap stage that runs does exactly
\* n_samplings rounds, every permutation task exactly n_permutations rounds,
\* and the leftovers are handled only when every dispatched chunk is done.
C25_Termination ==
    /\ <>Ended
    /\ []RoundsAndJoins
    /\ [][RoundsAndJoinsStep]_vars

\* a finished run with chunks, leftovers, all rounds of the bootstrap and of
\* the permutation test
C25_Witness ==
    /\ pc = "DONE"
    /\ PermutedInParallel
    /\ Len(args) = 2
    /\ Len(leftovers) = 1
    /\ BootstrapRan
    /\ n_samplings = MaxSamplings
    /\ n_permutations >= 1
    /\ \A i \in DOMAIN permutation_scores :
          Len(permutation_scores[i].null) = n_permutations
====
